---- MODULE Spec2Model ----
(***************************************************************************)
(* A model of woody's src/lib.rs: the process-wide Logger singleton        *)
(* (INSTANCE, Logger::get_instance, Logger::new), the per-handle level     *)
(* (Logger::set_level) and the write path (Logger::log) with its           *)
(* mutex-guarded append-only file.                                         *)
(*                                                                         *)
(* Threads are OS threads; every step below is one thread's step between   *)
(* two synchronisation points of the code.  An Option<T> is a sequence of  *)
(* length at most one: None is <<>>, Some(x) is <<x>>.  A byte string that *)
(* is written to a file is a sequence of chunks; a write system call       *)
(* appends one or more chunks.                                             *)
(***************************************************************************)
EXTENDS Integers, Sequences, FiniteSets, TLC

(***************************************************************************)
(* Bounds of the model.                                                    *)
(***************************************************************************)
NumThreads == 2
MaxLogs == 2
MaxWriterLogs == 1
MaxSetLevels == 1

Threads == 1..NumThreads

(***************************************************************************)
(* Option<T>.                                                              *)
(***************************************************************************)
None == <<>>
Some(x) == <<x>>
IsNone(o) == o = <<>>
IsSome(o) == o # <<>>
Unwrap(o) == o[1]

(***************************************************************************)
(* enum LogLevel and its Display.                                          *)
(***************************************************************************)
LogLevel == {"Error", "Warning", "Info", "Debug", "Trace", "Off"}

\* Fault variant: a Display that gives Off no label.
LevelDisplayOffEmpty(level) ==
    CASE level = "Debug" -> "DEBUG"
      [] level = "Info" -> "INFO"
      [] level = "Warning" -> "WARNING"
      [] level = "Error" -> "ERROR"
      [] level = "Trace" -> "TRACE"
      [] level = "Off" -> ""

LevelDisplay(level) ==
    CASE level = "Debug" -> "DEBUG"
      [] level = "Info" -> "INFO"
      [] level = "Warning" -> "WARNING"
      [] level = "Error" -> "ERROR"
      [] level = "Trace" -> "TRACE"
      [] level = "Off" -> "OFF"

(***************************************************************************)
(* The inputs of the model: the LogInfo values a caller passes, the wall   *)
(* clock readings, the names of the threads and the content the log file   *)
(* may have before the process starts (None: the file does not exist).     *)
(***************************************************************************)
FILENAME == "debug.log"

Messages == {"Hello, world!"}
Filepaths == {"src/lib.rs"}
LineNumbers == {42}
GivenThreads == {None, Some("worker")}
Times == {"2023-01-01 00:00:00.000 UTC"}
InitialContents == {None, Some(<<"earlier line\n">>)}

\* The records callers log: severities above, at and below the default level,
\* the Off of the text! macro, and a record that names its thread.
LogInfo ==
    [level : {"Error", "Trace", "Off"}, message : Messages, filepath : Filepaths,
     line_number : LineNumbers, thread : {None}]
    \cup [level : {"Info"}, message : Messages, filepath : Filepaths,
          line_number : LineNumbers, thread : GivenThreads \ {None}]

\* std::thread::current().name(): thread 1 is the named main thread, the
\* others are spawned without a name.
CurrentThreadName(t) == IF t = 1 THEN Some("main") ELSE None

(***************************************************************************)
(* The line Logger::log formats, as the chunks of its bytes.               *)
(***************************************************************************)
\* Fault variant: the thread named in the record is not looked at.
ThreadFieldOfCaller(info, t) ==
    IF IsSome(CurrentThreadName(t)) THEN Unwrap(CurrentThreadName(t))
    ELSE "unnamed"

ThreadField(info, t) ==
    IF IsSome(info.thread) THEN Unwrap(info.thread)
    ELSE IF IsSome(CurrentThreadName(t)) THEN Unwrap(CurrentThreadName(t))
    ELSE "unnamed"

Location(info) == info.filepath \o ":" \o ToString(info.line_number)

\* format!("[{}] [{}] [{}] [{}] {}\n", now, level, thread, location, message)
Format(now, info, t) ==
    << "[" \o now \o "] [" \o LevelDisplay(info.level) \o "] ",
       "[" \o ThreadField(info, t) \o "] [" \o Location(info) \o "] ",
       info.message \o "\n" >>

(***************************************************************************)
(* Dict, Value and the conversions between String, Vec<String> and Value.  *)
(* A Value is a record of its variant's tag and payload: s for String, a   *)
(* for Array (a sequence of Values).  Callers can only make Values with    *)
(* into_value (Value::new and ValueEnum are private).  The outcome of a    *)
(* call that may panic is a record: panicked, or the value returned.       *)
(***************************************************************************)
MaxArrayLen == 2

DictKeys == {"key1", "key2", "key3"}
Strings == {"value1", "value2"}

\* impl IntoValue for String.
StringIntoValue(s) == [tag |-> "String", s |-> s, a |-> <<>>]

\* impl IntoValue for Vec<String>.
VecIntoValue(v) ==
    [tag |-> "Array", s |-> "", a |-> [n \in 1..Len(v) |-> StringIntoValue(v[n])]]

Vecs == UNION {[1..n -> Strings] : n \in 0..MaxArrayLen}

Values == {StringIntoValue(s) : s \in Strings} \cup {VecIntoValue(v) : v \in Vecs}

Returned(x) == [panicked |-> FALSE, value |-> x]
Panicked == [panicked |-> TRUE, value |-> None]

\* Dict::new(): HashMap::new().
DictNew == [k \in {} |-> StringIntoValue("")]

\* HashMap::insert: the value of a key present is replaced.
MapInsert(map, k, value) ==
    [x \in DOMAIN map \cup {k} |-> IF x = k THEN value ELSE map[x]]

\* Dict::get.
DictGet(map, k) == IF k \in DOMAIN map THEN Some(map[k]) ELSE None

\* impl FromValue for String: a String is cloned, anything else panics.
StringFromValue(value) ==
    IF value.tag = "String" THEN Returned(value.s) ELSE Panicked

\* Dict::get_as::<String>.
GetAsString(map, k) ==
    IF IsSome(DictGet(map, k))
    THEN LET r == StringFromValue(Unwrap(DictGet(map, k)))
         IN  IF r.panicked THEN Panicked ELSE Returned(Some(r.value))
    ELSE Returned(None)

(***************************************************************************)
(* generate_temp_file_name.  A u64 is a sequence of NumLimbs digits in     *)
(* base LimbBase, the most significant first; a String is the sequence of  *)
(* its characters.                                                         *)
(***************************************************************************)
NumLimbs == 4
LimbBase == 65536
NameLen == 32

\* The values a limb of the hash takes in the model: the least, the
\* greatest, and values around the powers of ten.
LimbSamples == {0, 1, 9, 10, 255, LimbBase - 1}

\* The values of hasher.finish().
Hashes == [1..NumLimbs -> LimbSamples]

U64Zero == [i \in 1..NumLimbs |-> 0]
U64Max == [i \in 1..NumLimbs |-> LimbBase - 1]

Prefix == <<"t", "e", "m", "p", "-">>
Suffix == <<".", "l", "o", "g">>

\* The quotient and the remainder of a u64 by ten, by long division.
RECURSIVE Div10(_, _)
Div10(limbs, rem) ==
    IF limbs = <<>> THEN [q |-> <<>>, r |-> rem]
    ELSE LET cur == rem * LimbBase + Head(limbs)
             rest == Div10(Tail(limbs), cur % 10)
         IN  [q |-> <<cur \div 10>> \o rest.q, r |-> rest.r]

\* Display for u64: the decimal digits, without leading zeros; "0" for 0.
RECURSIVE DigitsOf(_)
DigitsOf(limbs) ==
    IF \A i \in 1..Len(limbs) : limbs[i] = 0 THEN <<>>
    ELSE DigitsOf(Div10(limbs, 0).q) \o <<ToString(Div10(limbs, 0).r)>>

U64ToString(h) == IF DigitsOf(h) = <<>> THEN <<"0">> ELSE DigitsOf(h)

\* Fault variant: the width computed without the suffix.
PadWidthNoSuffix == NameLen - Len(Prefix)

\* let len = 32 - prefix.len() - suffix.len() (line 83).
PadWidth == NameLen - Len(Prefix) - Len(Suffix)

\* format!("{:0>len$}", hash): zeros on the left up to the width; a string
\* that is wider than the width is left as it is.
PadLeft(str, width) ==
    IF Len(str) >= width THEN str
    ELSE [i \in 1..(width - Len(str)) |-> "0"] \o str

\* format!("temp-{}.log", hash) (line 86).
TempFileName(h) == Prefix \o PadLeft(U64ToString(h), PadWidth) \o Suffix

(***************************************************************************)
(* State.                                                                  *)
(*   instance  the static INSTANCE: a Mutex (holder 0 = unlocked, poisoned)*)
(*             around an Option<Logger>                                    *)
(*   files     the Arc<Mutex<File>> objects created so far; a Logger's     *)
(*             file field is an index into this sequence                   *)
(*   disk      the content of the file named FILENAME (None: absent)       *)
(*   canOpen   whether the file system lets FILENAME be opened             *)
(*   pc        each thread's position                                      *)
(*   logger    get_instance's local `logger`                               *)
(*   handle    the Logger value the thread got from get_instance           *)
(*   info      log's parameter `info`                                      *)
(*   output    log's local `output`                                        *)
(*   off       the number of chunks of output write_all has written        *)
(*   writer    the Vec<u8> passed as writer override (None: not passed)    *)
(* History variables, read by no action's guard:                           *)
(*   newCalls  the number of times Logger::new was entered                 *)
(*   initial   the content of the file when the process started            *)
(*   journal   one entry per acquisition of a file mutex by log, in the    *)
(*             order of acquisition                                        *)
(*   nlogs     per thread, the number of sink-path log calls started       *)
(*   nwriter   the number of log calls with a writer override started      *)
(*   nset      the number of set_level calls                               *)
(* The Dict of the same file, which the Logger does not use:               *)
(*   dict      the map of a Dict: a function from the keys present to      *)
(*             their Values                                                *)
(*   key       the key of the caller's latest get_as call (None: no call)  *)
(*   ret       the outcome of that call                                    *)
(* generate_temp_file_name, which the build without cfg(test) never calls: *)
(*   hash      the u64 of hasher.finish() in the latest call               *)
(*   name      the String the latest call returned (None: no call yet)     *)
(***************************************************************************)
VARIABLES instance, files, disk, canOpen, pc, logger, handle, info, output,
          off, writer, newCalls, initial, journal, nlogs, nwriter, nset,
          dict, key, ret, hash, name

\* The state of the Logger and of its callers, the state of a Dict and of
\* its caller, and the locals of generate_temp_file_name.
loggerVars == <<instance, files, disk, canOpen, pc, logger, handle, info, output,
                off, writer, newCalls, initial, journal, nlogs, nwriter, nset>>
dictVars == <<dict, key, ret>>
nameVars == <<hash, name>>

vars == <<loggerVars, dictVars, nameVars>>

Init ==
    /\ instance = [holder |-> 0, poisoned |-> FALSE, value |-> None]
    /\ files = <<>>
    /\ disk \in InitialContents
    /\ canOpen \in BOOLEAN
    /\ pc = [t \in Threads |-> "idle"]
    /\ logger = [t \in Threads |-> None]
    /\ handle = [t \in Threads |-> None]
    /\ info = [t \in Threads |-> None]
    /\ output = [t \in Threads |-> <<>>]
    /\ off = [t \in Threads |-> 0]
    /\ writer = [t \in Threads |-> None]
    /\ newCalls = 0
    /\ initial = disk
    /\ journal = <<>>
    /\ nlogs = [t \in Threads |-> 0]
    /\ nwriter = 0
    /\ nset = 0
    /\ dict = DictNew
    /\ key = None
    /\ ret = Returned(None)
    /\ hash = U64Zero
    /\ name = None

\* The thread is between two calls.
Ready(t) == pc[t] = "idle"

\* The caller's Vec<u8> of an earlier writer-override call is dropped when
\* the thread goes on to its next call.
StartCall(t) ==
    /\ Ready(t)
    /\ writer' = [writer EXCEPT ![t] = None]

\* Fault variant: get_instance that never finds the stored Logger.
SlotEmptyAlways(inst) == TRUE

\* if current_global_instance_lock.is_none() (line 179).
SlotEmpty(inst) == IsNone(inst.value)

\* Fault variant: a Logger constructed with another level.
DefaultLevelDebug == "Debug"

\* let level = LogLevel::Info (line 131).
DefaultLevel == "Info"

\* The locals of get_instance and log are dropped when the call returns or
\* unwinds.
DropLocals(t) ==
    /\ logger' = [logger EXCEPT ![t] = None]
    /\ info' = [info EXCEPT ![t] = None]
    /\ output' = [output EXCEPT ![t] = <<>>]
    /\ off' = [off EXCEPT ![t] = 0]

(***************************************************************************)
(* Mutex<T>::lock().unwrap(): blocks while another thread holds the mutex; *)
(* on a poisoned mutex the unwrap panics and the guard inside the error is *)
(* dropped at once.                                                        *)
(***************************************************************************)
\* Fault variant: a lock that excludes nobody.
MutexFreeAlways(m) == TRUE

MutexFree(m) == m.holder = 0

\* Fault variant: a guard that is leaked, the mutex staying locked.
UnlockNever(m) == m

\* A guard dropped normally, and a guard dropped by a panic's unwinding.
Unlock(m) == [m EXCEPT !.holder = 0]

\* Fault variant: a mutex that a panicking holder does not poison.
UnlockNoPoison(m) == [m EXCEPT !.holder = 0]

UnlockByPanic(m) == [m EXCEPT !.holder = 0, !.poisoned = TRUE]

(***************************************************************************)
(* Logger::get_instance.                                                   *)
(***************************************************************************)
\* Lines 175-177: the call is made and clones the Arc of INSTANCE; the
\* thread then waits for the mutex.
GetInstanceCall(t) ==
    /\ StartCall(t)
    /\ pc' = [pc EXCEPT ![t] = "gi_lock"]
    /\ UNCHANGED <<instance, files, disk, canOpen, logger, handle, info, output,
                   off, newCalls, initial, journal, nlogs, nwriter, nset>>
    /\ UNCHANGED <<dictVars, nameVars>>

\* Line 178: .lock().unwrap().
GetInstanceLock(t) ==
    /\ pc[t] = "gi_lock"
    /\ MutexFree(instance)
    /\ IF instance.poisoned
       THEN /\ pc' = [pc EXCEPT ![t] = "panicked"]
            /\ UNCHANGED instance
       ELSE /\ pc' = [pc EXCEPT ![t] = "gi_check"]
            /\ instance' = [instance EXCEPT !.holder = t]
    /\ UNCHANGED <<files, disk, canOpen, logger, handle, info, output, off,
                   writer, newCalls, initial, journal, nlogs, nwriter, nset>>
    /\ UNCHANGED <<dictVars, nameVars>>

\* Fault variant: the file opened with truncate (File::create).
OpenTruncate(content) == Some(<<>>)

\* OpenOptions::new().create(true).append(true).open(filename): the content
\* of the file after a successful open.
OpenAppendCreate(content) == IF IsNone(content) THEN Some(<<>>) ELSE content

\* Fault variant: an open whose error is not seen.
OpenOkAlways == TRUE

\* The Result of .open(filename) (line 98) is Ok.
OpenOk == canOpen

\* Line 179 finds the slot empty; line 181: Logger::new with
\* get_file_and_filename (the build without cfg(test)).  A failed open
\* panics in the unwrap of line 99, under the guard of line 178.
LoggerNew(t) ==
    /\ pc[t] = "gi_check"
    /\ SlotEmpty(instance)
    /\ newCalls' = newCalls + 1
    /\ IF OpenOk
       THEN /\ disk' = OpenAppendCreate(disk)
            /\ files' = Append(files, [holder |-> 0, poisoned |-> FALSE])
            /\ logger' = [logger EXCEPT ![t] =
                   Some([file |-> Len(files) + 1, level |-> DefaultLevel,
                         filename |-> FILENAME])]
            /\ pc' = [pc EXCEPT ![t] = "gi_store"]
            /\ UNCHANGED instance
       ELSE /\ pc' = [pc EXCEPT ![t] = "panicked"]
            /\ instance' = UnlockByPanic(instance)
            /\ UNCHANGED <<disk, files, logger>>
    /\ UNCHANGED <<canOpen, handle, info, output, off, writer, initial, journal,
                   nlogs, nwriter, nset>>
    /\ UNCHANGED <<dictVars, nameVars>>

\* Lines 182-183: store a clone in the slot, return the Logger; the guard
\* is dropped on return.
GetInstanceStore(t) ==
    /\ pc[t] = "gi_store"
    /\ instance' = Unlock([instance EXCEPT !.value = logger[t]])
    /\ handle' = [handle EXCEPT ![t] = logger[t]]
    /\ pc' = [pc EXCEPT ![t] = "idle"]
    /\ DropLocals(t)
    /\ UNCHANGED <<files, disk, canOpen, writer, newCalls, initial, journal,
                   nlogs, nwriter, nset>>
    /\ UNCHANGED <<dictVars, nameVars>>

\* Line 186: the slot is full; return a clone of its Logger.
GetInstanceExisting(t) ==
    /\ pc[t] = "gi_check"
    /\ ~SlotEmpty(instance)
    /\ handle' = [handle EXCEPT ![t] = instance.value]
    /\ instance' = Unlock(instance)
    /\ pc' = [pc EXCEPT ![t] = "idle"]
    /\ UNCHANGED <<files, disk, canOpen, logger, info, output, off, writer,
                   newCalls, initial, journal, nlogs, nwriter, nset>>
    /\ UNCHANGED <<dictVars, nameVars>>

(***************************************************************************)
(* Logger::set_level, on the caller's own Logger value.                    *)
(***************************************************************************)
WithLevel(lg, level) == [lg EXCEPT !.level = level]

SetLevel(t, level) ==
    /\ StartCall(t)
    /\ IsSome(handle[t])
    /\ nset < MaxSetLevels
    /\ nset' = nset + 1
    /\ handle' = [handle EXCEPT ![t] = Some(WithLevel(Unwrap(handle[t]), level))]
    /\ UNCHANGED <<instance, files, disk, canOpen, pc, logger, info, output, off,
                   newCalls, initial, journal, nlogs, nwriter>>
    /\ UNCHANGED <<dictVars, nameVars>>

(***************************************************************************)
(* Logger::log.                                                            *)
(***************************************************************************)
RECURSIVE SumTo(_, _)
SumTo(f, n) == IF n = 0 THEN 0 ELSE f[n] + SumTo(f, n - 1)

\* The sink-path log calls started so far, by all threads.
LogsStarted == SumTo(nlogs, NumThreads)

\* Lines 148-165: read the clock, format `output`; line 166 chooses the path.
LogFormat(t, i, now, useWriter) ==
    /\ Ready(t)
    /\ writer' = [writer EXCEPT ![t] = IF useWriter THEN Some(<<>>) ELSE None]
    /\ IsSome(handle[t])
    /\ IF useWriter THEN nwriter < MaxWriterLogs ELSE LogsStarted < MaxLogs
    /\ nwriter' = IF useWriter THEN nwriter + 1 ELSE nwriter
    /\ nlogs' = [nlogs EXCEPT ![t] = IF useWriter THEN @ ELSE @ + 1]
    /\ info' = [info EXCEPT ![t] = Some(i)]
    /\ output' = [output EXCEPT ![t] = Format(now, i, t)]
    /\ pc' = [pc EXCEPT ![t] = IF useWriter THEN "log_writer" ELSE "log_lock"]
    /\ UNCHANGED <<instance, files, disk, canOpen, logger, handle, off, newCalls,
                   initial, journal, nset>>
    /\ UNCHANGED <<dictVars, nameVars>>

\* Fault variant: log without the `return ()`, falling through to the file.
AfterWriterFallThrough == "log_lock"

\* Where log goes after it has written to the writer: `return ()` (line 168).
AfterWriter == "idle"

\* Lines 166-169: writer.write_all(output) on the caller's Vec<u8>, then
\* return.
LogToWriter(t) ==
    /\ pc[t] = "log_writer"
    /\ writer' = [writer EXCEPT ![t] = Some(Unwrap(writer[t]) \o output[t])]
    /\ pc' = [pc EXCEPT ![t] = AfterWriter]
    /\ IF AfterWriter = "idle"
       THEN DropLocals(t)
       ELSE UNCHANGED <<logger, info, output, off>>
    /\ UNCHANGED <<instance, files, disk, canOpen, handle, newCalls, initial,
                   journal, nlogs, nwriter, nset>>
    /\ UNCHANGED <<dictVars, nameVars>>

\* Line 167 with a writer whose write_all returns an error: the unwrap
\* panics; no guard is alive.
LogToWriterFail(t) ==
    /\ pc[t] = "log_writer"
    /\ pc' = [pc EXCEPT ![t] = "panicked"]
    /\ DropLocals(t)
    /\ UNCHANGED <<instance, files, disk, canOpen, handle, writer, newCalls,
                   initial, journal, nlogs, nwriter, nset>>
    /\ UNCHANGED <<dictVars, nameVars>>

\* The file mutex of the Logger value thread t holds.
FileOf(t) == Unwrap(handle[t]).file

\* Line 171: self.file.lock().unwrap().
LogLock(t) ==
    /\ pc[t] = "log_lock"
    /\ MutexFree(files[FileOf(t)])
    /\ IF files[FileOf(t)].poisoned
       THEN /\ pc' = [pc EXCEPT ![t] = "panicked"]
            /\ DropLocals(t)
            /\ UNCHANGED <<files, journal>>
       ELSE /\ pc' = [pc EXCEPT ![t] = "log_write"]
            /\ files' = [files EXCEPT ![FileOf(t)].holder = t]
            /\ journal' = Append(journal,
                   [thread |-> t, seq |-> nlogs[t], output |-> output[t],
                    start |-> 0, n |-> 0])
            /\ UNCHANGED <<logger, info, output, off>>
    /\ UNCHANGED <<instance, disk, canOpen, handle, writer, newCalls, initial,
                   nlogs, nwriter, nset>>
    /\ UNCHANGED <<dictVars, nameVars>>

\* The journal entry of thread t's current sink-path call.
CurEntry(t) ==
    CHOOSE k \in 1..Len(journal) :
        /\ journal[k].thread = t
        /\ \A j \in (k + 1)..Len(journal) : journal[j].thread # t

\* Fault variant: a write at offset 0, over what the file holds there.
WriteAtStart(content, bytes) ==
    bytes \o SubSeq(content, Len(bytes) + 1, Len(content))

\* A write(2) on a file opened with O_APPEND: the bytes go to the end.
AppendWrite(content, bytes) == content \o bytes

\* Line 172, one write system call of write_all: it takes n of the chunks
\* that are left.
LogWrite(t) ==
    /\ pc[t] = "log_write"
    /\ \E n \in 1..(Len(output[t]) - off[t]) :
          /\ disk' = Some(AppendWrite(Unwrap(disk),
                                      SubSeq(output[t], off[t] + 1, off[t] + n)))
          /\ off' = [off EXCEPT ![t] = @ + n]
          /\ LET e == journal[CurEntry(t)]
             IN  journal' = [journal EXCEPT ![CurEntry(t)] =
                     [e EXCEPT !.start = IF e.n = 0 THEN Len(Unwrap(disk))
                                                   ELSE e.start,
                               !.n = e.n + n]]
    /\ UNCHANGED <<instance, files, canOpen, pc, logger, handle, info, output,
                   writer, newCalls, initial, nlogs, nwriter, nset>>
    /\ UNCHANGED <<dictVars, nameVars>>

\* Fault variant: the Result of write_all dropped, log returning normally.
AfterWriteErrorIgnored == "idle"

\* Where log goes when write_all returns Err: the unwrap panics (line 172).
AfterWriteError == "panicked"

\* Line 172, a write system call that fails: the unwrap panics while the
\* guard of line 171 is alive.
LogWriteFail(t) ==
    /\ pc[t] = "log_write"
    /\ off[t] < Len(output[t])
    /\ files' = [files EXCEPT ![FileOf(t)] =
           IF AfterWriteError = "panicked" THEN UnlockByPanic(@) ELSE Unlock(@)]
    /\ pc' = [pc EXCEPT ![t] = AfterWriteError]
    /\ DropLocals(t)
    /\ UNCHANGED <<instance, disk, canOpen, handle, writer, newCalls, initial,
                   journal, nlogs, nwriter, nset>>
    /\ UNCHANGED <<dictVars, nameVars>>

\* Fault variant: write in place of write_all, a single write system call
\* that may take only part of the bytes.
WriteOnceDone(t) == off[t] > 0

\* write_all returns Ok when all the bytes of output have been written.
WriteAllDone(t) == off[t] = Len(output[t])

\* Line 173: write_all has returned Ok, the guard is dropped, log returns.
LogReturn(t) ==
    /\ pc[t] = "log_write"
    /\ WriteAllDone(t)
    /\ files' = [files EXCEPT ![FileOf(t)] = Unlock(@)]
    /\ pc' = [pc EXCEPT ![t] = "idle"]
    /\ DropLocals(t)
    /\ UNCHANGED <<instance, disk, canOpen, handle, writer, newCalls, initial,
                   journal, nlogs, nwriter, nset>>
    /\ UNCHANGED <<dictVars, nameVars>>

Next ==
    \E t \in Threads :
        \/ GetInstanceCall(t)
        \/ GetInstanceLock(t)
        \/ LoggerNew(t)
        \/ GetInstanceStore(t)
        \/ GetInstanceExisting(t)
        \/ \E level \in LogLevel : SetLevel(t, level)
        \/ \E i \in LogInfo, now \in Times, useWriter \in BOOLEAN :
               LogFormat(t, i, now, useWriter)
        \/ LogToWriter(t)
        \/ LogToWriterFail(t)
        \/ LogLock(t)
        \/ LogWrite(t)
        \/ LogWriteFail(t)
        \/ LogReturn(t)

Spec == Init /\ [][Next]_vars

\* The initial states in which the log file can be opened.
InitOpenable == Init /\ canOpen

(***************************************************************************)
(* The formatting of Logger::log over every LogLevel, with and without a   *)
(* thread given in the record, on a named and on an unnamed thread, by the *)
(* file path and by the writer path; no I/O error occurs.                  *)
(***************************************************************************)
AnyLogInfo ==
    [level : LogLevel, message : Messages \cup {""}, filepath : Filepaths,
     line_number : LineNumbers, thread : GivenThreads]

\* A log call at a time when no sink-path call has been started yet.
LogFormatFirst(t, i, now, useWriter) ==
    /\ LogsStarted = 0
    /\ LogFormat(t, i, now, useWriter)

NextFormat ==
    \E t \in Threads :
        \/ GetInstanceCall(t)
        \/ GetInstanceLock(t)
        \/ LoggerNew(t)
        \/ GetInstanceStore(t)
        \/ GetInstanceExisting(t)
        \/ \E i \in AnyLogInfo, now \in Times, useWriter \in BOOLEAN :
               LogFormatFirst(t, i, now, useWriter)
        \/ LogToWriter(t)
        \/ LogLock(t)
        \/ LogWrite(t)
        \/ LogReturn(t)

SpecFormat == InitOpenable /\ [][NextFormat]_vars

(***************************************************************************)
(* The calls under fair scheduling and without I/O errors: the file can be *)
(* opened and no write fails.  A thread that is inside a call goes on      *)
(* running (weak fairness of its steps), and a thread that waits for a     *)
(* mutex which is released again and again gets it in the end (strong      *)
(* fairness of its lock step).  Nothing obliges a thread to make a call.   *)
(* set_level is left out: neither get_instance nor log reads the level.    *)
(***************************************************************************)
\* The steps of thread t that wait for nothing.
Run(t) ==
    \/ LoggerNew(t)
    \/ GetInstanceStore(t)
    \/ GetInstanceExisting(t)
    \/ LogToWriter(t)
    \/ LogWrite(t)
    \/ LogReturn(t)

NextLive ==
    \E t \in Threads :
        \/ GetInstanceCall(t)
        \/ GetInstanceLock(t)
        \/ LoggerNew(t)
        \/ GetInstanceStore(t)
        \/ GetInstanceExisting(t)
        \/ \E i \in LogInfo, now \in Times, useWriter \in BOOLEAN :
               LogFormat(t, i, now, useWriter)
        \/ LogToWriter(t)
        \/ LogLock(t)
        \/ LogWrite(t)
        \/ LogReturn(t)

Fairness ==
    \A t \in Threads :
        /\ WF_vars(Run(t))
        /\ SF_vars(GetInstanceLock(t))
        /\ SF_vars(LogLock(t))

SpecLive == InitOpenable /\ [][NextLive]_vars /\ Fairness

(***************************************************************************)
(* A Dict and its caller: the caller inserts Values made with into_value   *)
(* (as get_dict does) and reads them with get_as::<String>.                *)
(***************************************************************************)
\* Dict::insert(key, value.into_value()); the outcome of an earlier get_as
\* is a temporary of the caller and is gone.
DictInsert(k, value) ==
    /\ dict' = MapInsert(dict, k, value)
    /\ key' = None
    /\ ret' = Returned(None)
    /\ UNCHANGED <<loggerVars, nameVars>>

\* dict.get_as::<String>(k).
DictGetAs(k) ==
    /\ key' = Some(k)
    /\ ret' = GetAsString(dict, k)
    /\ UNCHANGED <<dict, loggerVars, nameVars>>

NextDict ==
    \/ \E k \in DictKeys, value \in Values : DictInsert(k, value)
    \/ \E k \in DictKeys : DictGetAs(k)

SpecDict == Init /\ [][NextDict]_vars

(***************************************************************************)
(* generate_temp_file_name, called once (as get_file_and_filename does in  *)
(* the test build) with the clock at any reading: the hash of the          *)
(* formatted time is any u64.                                              *)
(***************************************************************************)
GenerateTempFileName(h) ==
    /\ IsNone(name)
    /\ hash' = h
    /\ name' = Some(TempFileName(h))
    /\ UNCHANGED <<loggerVars, dictVars>>

NextName == \E h \in Hashes : GenerateTempFileName(h)

SpecName == Init /\ [][NextName]_vars

(***************************************************************************)
(* Properties.                                                             *)
(***************************************************************************)
Handles == {t \in Threads : IsSome(handle[t])}
LevelOf(t) == Unwrap(handle[t]).level

\* Thread t takes the step.
Moved(t) ==
    \/ pc'[t] # pc[t]
    \/ off'[t] # off[t]
    \/ handle'[t] # handle[t]
    \/ writer'[t] # writer[t]

\* Thread t is inside a sink-path log call, past the point where the level
\* could have been consulted.
InSinkLog(t) == pc[t] \in {"log_lock", "log_write"}

\* write_all has written the whole line of t's call.
LineWritten(t) == pc[t] = "log_write" /\ off[t] = Len(output[t])

\* The order of severities the documentation of woody gives:
\* Error > Warning > Debug > Info > Trace.
Severities == {"Error", "Warning", "Debug", "Info", "Trace"}
SeverityRank(level) ==
    CASE level = "Error" -> 5
      [] level = "Warning" -> 4
      [] level = "Debug" -> 3
      [] level = "Info" -> 2
      [] level = "Trace" -> 1

IsPrefix(a, b) == Len(a) <= Len(b) /\ SubSeq(b, 1, Len(a)) = a

\* The content of the log file when the Logger has opened it.
Opened == Unwrap(OpenAppendCreate(initial))

\* The part of the file a journal entry's call has written, as it stands in
\* the file.
Landed(e) == SubSeq(Unwrap(disk), e.start + 1, e.start + e.n)

\* The call of journal entry k is over (it returned, or a later call of the
\* same thread has started).
Over(k) ==
    ~(k = CurEntry(journal[k].thread)
      /\ pc[journal[k].thread] \in {"log_write", "panicked"})

RECURSIVE SumN(_)
SumN(k) == IF k = 0 THEN 0 ELSE journal[k].n + SumN(k - 1)

\* C1: under any interleaving of get_instance calls, Logger::new is entered
\* at most once (and at most one file object exists), and every handle a
\* call returned is the Logger stored in the registry: same file object,
\* same filename.
C1_ConstructedOnce ==
    /\ newCalls <= 1
    /\ Len(files) <= 1
    /\ \A t \in Handles :
          /\ IsSome(instance.value)
          /\ Unwrap(handle[t]).file = Unwrap(instance.value).file
          /\ Unwrap(handle[t]).filename = Unwrap(instance.value).filename

\* Both threads have been through get_instance and hold a handle; nothing
\* else has happened yet.
C1_Witness ==
    /\ newCalls = 1
    /\ Handles = Threads
    /\ nset = 0 /\ nwriter = 0 /\ LogsStarted = 0

\* C2 (as claimed): at every moment all handles, and the registry's Logger,
\* observe the same threshold.
C2_SameThreshold ==
    /\ \A t1, t2 \in Handles : LevelOf(t1) = LevelOf(t2)
    /\ \A t \in Handles :
          IsSome(instance.value) => LevelOf(t) = Unwrap(instance.value).level

\* C3 (as claimed): with a threshold th among the five severities, a
\* sink-path log call for a record of severity s writes the record's line
\* only if s is at or above th: nothing of a record below the threshold
\* goes to the file.  (The other half, that a record at or above th is
\* written, holds of every call that returns: LogReturn.)
C3_ThresholdGate ==
    \A t \in Threads :
        (InSinkLog(t) /\ LevelOf(t) \in Severities
                      /\ Unwrap(info[t]).level \in Severities
                      /\ SeverityRank(Unwrap(info[t]).level) < SeverityRank(LevelOf(t)))
        => off[t] = 0

\* C4 (as claimed): a sink-path log call on a handle whose threshold is Off,
\* for a record of one of the five severities, writes nothing to the file.
C4_OffWritesNothing ==
    \A t \in Threads :
        (InSinkLog(t) /\ LevelOf(t) = "Off"
                      /\ Unwrap(info[t]).level \in Severities)
        => off[t] = 0

\* C5: line atomicity.  What each log call has written stands in the file
\* as one contiguous run of its own line's bytes; the runs of different
\* calls do not overlap; the file holds nothing but its content at open and
\* these runs; a call that is over without a failed write has written its
\* whole line.
C5_LineAtomicity ==
    IsSome(disk) =>
      /\ \A k \in 1..Len(journal) :
            /\ journal[k].n > 0 =>
                  Landed(journal[k]) = SubSeq(journal[k].output, 1, journal[k].n)
            /\ (Over(k) /\ pc[journal[k].thread] # "panicked") =>
                  journal[k].n = Len(journal[k].output)
      /\ \A j, k \in 1..Len(journal) :
            (j # k /\ journal[j].n > 0 /\ journal[k].n > 0) =>
               \/ journal[j].start + journal[j].n <= journal[k].start
               \/ journal[k].start + journal[k].n <= journal[j].start
      /\ Len(Unwrap(disk)) = Len(Opened) + SumN(Len(journal))

\* One thread is in the middle of its line while the other waits for the
\* file lock with a line of its own.
C5_Witness ==
    \E t1, t2 \in Threads :
        /\ pc[t1] = "log_write" /\ off[t1] > 0 /\ off[t1] < Len(output[t1])
        /\ pc[t2] = "log_lock"

C6_HandlesAgree ==
    \A t1, t2 \in Handles :
        /\ Unwrap(handle[t1]).file = Unwrap(handle[t2]).file
        /\ Unwrap(handle[t1]).filename = Unwrap(handle[t2]).filename

C6_RegistryFixed ==
    IsSome(instance.value) => instance'.value = instance.value

\* C6: all handles ever returned refer to the same file object and carry
\* the same filename, and once the registry holds a Logger it holds that
\* Logger for good.
C6_OneSink == [](C6_HandlesAgree) /\ [][C6_RegistryFixed]_vars

\* Both threads hold a handle, one of them with a level of its own, and
\* lines have gone to the file through both.
C6_Witness ==
    /\ Handles = Threads
    /\ \E t \in Threads : LevelOf(t) # DefaultLevel
    /\ \E j, k \in 1..Len(journal) : journal[j].thread # journal[k].thread

C7_KeepsInitial ==
    IsSome(initial) => IsSome(disk) /\ IsPrefix(Unwrap(initial), Unwrap(disk))

C7_OnlyGrows ==
    IsSome(disk) => IsSome(disk') /\ IsPrefix(Unwrap(disk), Unwrap(disk'))

\* C7: appends, never truncates.  The file always starts with the content
\* it had when the process started, and every step leaves the previous
\* content as a prefix of the new.
C7_AppendOnly == [](C7_KeepsInitial) /\ [][C7_OnlyGrows]_vars

\* The file had content before the process started and a whole line has
\* been written after it.
C7_Witness ==
    /\ IsSome(initial) /\ Len(Unwrap(initial)) > 0
    /\ \E k \in 1..Len(journal) : journal[k].n = Len(journal[k].output)
    /\ Len(Unwrap(disk)) > Len(Unwrap(initial))

\* Thread t is inside a log call that was given a writer.
InWriterLog(t) == IsSome(writer[t]) /\ pc[t] \notin {"idle", "panicked"}

C8_WriterStep ==
    \A t \in Threads :
        /\ (Moved(t) /\ (InWriterLog(t) \/ pc'[t] = "log_writer")) =>
              /\ disk' = disk
              /\ files' = files
              /\ instance' = instance
              /\ handle' = handle
              /\ journal' = journal
        /\ (InWriterLog(t) /\ pc'[t] = "idle") =>
              writer'[t] = Some(output[t])

\* C8: writer override.  No step of a log call that was given a writer
\* changes the file, a file lock, the registry or a handle, and when the
\* call returns the writer holds the formatted line.
C8_WriterOverride == [][C8_WriterStep]_vars

\* A writer-override call has returned with the line in the writer, while
\* the file holds a line of a sink-path call.
C8_Witness ==
    \E t \in Threads :
        /\ pc[t] = "idle"
        /\ IsSome(writer[t])
        /\ Len(Unwrap(writer[t])) > 0
        /\ Len(journal) > 0

\* C9: within one thread, sink-path records are in the file in program
\* order: the line of an earlier call of a thread stands whole in the file
\* before the first byte of a later call of the same thread.
C9_ProgramOrder ==
    \A j, k \in 1..Len(journal) :
        (journal[j].thread = journal[k].thread
         /\ journal[j].seq < journal[k].seq /\ journal[k].n > 0)
        => /\ Landed(journal[j]) = journal[j].output
           /\ journal[j].start + Len(journal[j].output) <= journal[k].start
           /\ Landed(journal[k]) = SubSeq(journal[k].output, 1, journal[k].n)

\* One thread has logged twice, and the other thread has been through
\* get_instance in between or around.
C9_Witness ==
    /\ Handles = Threads
    /\ \E j, k \in 1..Len(journal) :
          /\ journal[j].thread = journal[k].thread
          /\ journal[j].seq < journal[k].seq
          /\ journal[k].n = Len(journal[k].output)

C10_Step ==
    /\ IsSome(instance.value) => IsSome(instance'.value)
    /\ \A t \in Threads :
          (pc[t] \in {"gi_check", "gi_store"} /\ pc'[t] = "idle") =>
              /\ IsSome(instance'.value)
              /\ IsSome(handle'[t])
              /\ Unwrap(handle'[t]).level = "Info"

\* C10: when a call of get_instance returns, the registry holds a Logger
\* and the returned handle has level Info; the registry never becomes
\* empty again.
C10_RegistryFilled == [][C10_Step]_vars

\* A thread whose handle carries a level that set_level gave it is in a
\* later get_instance call, which has found the slot full.
C10_Witness ==
    \E t \in Handles :
        /\ pc[t] = "gi_check" /\ ~SlotEmpty(instance)
        /\ LevelOf(t) # "Info"

\* The last n chunks of the log file.
DiskTail(n) ==
    SubSeq(Unwrap(disk), Len(Unwrap(disk)) - n + 1, Len(Unwrap(disk)))

C11_Step ==
    \A t \in Threads :
        (InSinkLog(t) /\ Unwrap(info[t]).level = "Off"
                      /\ IsNone(Unwrap(info[t]).thread)) =>
            /\ \E now \in Times :
                  output[t][1] = "[" \o now \o "] [OFF] "
            /\ output[t][3] = Unwrap(info[t]).message \o "\n"
            /\ (pc'[t] = "idle" /\ LevelOf(t) # "Off") =>
                  /\ Len(Unwrap(disk')) >= Len(output[t])
                  /\ SubSeq(Unwrap(disk'), Len(Unwrap(disk')) - Len(output[t]) + 1,
                            Len(Unwrap(disk'))) = output[t]

\* C11: the record text! logs (severity Off, thread not given, no writer)
\* is formatted with the label OFF and its message verbatim, and when the
\* call on a handle whose level is not Off returns, that line is the end
\* of the log file.
C11_TextIsOffRecord == [][C11_Step]_vars

\* A call for an Off record, on a handle whose level is not Off, has
\* written its whole line and is about to return.
C11_Witness ==
    \E t \in Threads :
        /\ LineWritten(t)
        /\ Unwrap(info[t]).level = "Off"
        /\ LevelOf(t) # "Off"
        /\ DiskTail(Len(output[t])) = output[t]

\* C12: when the log file cannot be opened, no Logger is ever stored in
\* the registry and no get_instance call on any thread ever returns a
\* handle; the call that tried to open the file has panicked and left the
\* registry's mutex poisoned, and Logger::new is not tried again.
C12_OpenFailure ==
    ~canOpen =>
        /\ Handles = {}
        /\ IsNone(instance.value)
        /\ files = <<>>
        /\ \A t \in Threads : pc[t] \notin {"gi_store", "log_lock", "log_write"}
        /\ newCalls <= 1
        /\ newCalls = 1 =>
              /\ instance.poisoned
              /\ \E t \in Threads : pc[t] = "panicked"

\* The file cannot be opened; one thread's get_instance has panicked in
\* Logger::new and every other thread's get_instance has panicked at the
\* registry's lock.
C12_Witness ==
    /\ ~canOpen
    /\ newCalls = 1
    /\ \A t \in Threads : pc[t] = "panicked"

\* The sink-path call of journal entry k had a write fail: it is not
\* between two writes and part of its line is missing.
Unwritten(k) ==
    /\ journal[k].n < Len(journal[k].output)
    /\ ~(k = CurEntry(journal[k].thread) /\ pc[journal[k].thread] = "log_write")

\* C13: a sink-path log call whose write_all failed does not return
\* normally.  Every call that has left part of its line unwritten has
\* panicked: its thread is terminated by the panic, in that very call, and
\* the file mutex it held is poisoned.
C13_WriteFailurePanics ==
    \A k \in 1..Len(journal) :
        Unwritten(k) =>
            /\ k = CurEntry(journal[k].thread)
            /\ pc[journal[k].thread] = "panicked"
            /\ files[Unwrap(handle[journal[k].thread]).file].poisoned

\* A call has written part of its line, the next write has failed, and
\* the thread has panicked.
C13_Witness ==
    \E k \in 1..Len(journal) :
        /\ Unwritten(k)
        /\ journal[k].n > 0
        /\ pc[journal[k].thread] = "panicked"

\* The bytes of a sequence of chunks, as one string.
RECURSIVE Concat(_)
Concat(chunks) ==
    IF chunks = <<>> THEN "" ELSE Head(chunks) \o Concat(Tail(chunks))

\* The line the specification gives for a record logged by thread t.
LabelAsSpecified(level) ==
    CASE level = "Error" -> "ERROR"
      [] level = "Warning" -> "WARNING"
      [] level = "Info" -> "INFO"
      [] level = "Debug" -> "DEBUG"
      [] level = "Trace" -> "TRACE"
      [] level = "Off" -> "OFF"

ThreadAsSpecified(i, t) ==
    IF i.thread # None THEN i.thread[1]
    ELSE IF t = 1 THEN "main"
    ELSE "unnamed"

LineAsSpecified(now, i, t) ==
    "[" \o now \o "] [" \o LabelAsSpecified(i.level) \o "] [" \o ThreadAsSpecified(i, t)
        \o "] [" \o i.filepath \o ":" \o ToString(i.line_number) \o "] "
        \o i.message \o "\n"

C14_Step ==
    \A t \in Threads :
        /\ (pc[t] = "log_writer" /\ pc'[t] = "idle") =>
              \E now \in Times :
                  Concat(Unwrap(writer'[t])) = LineAsSpecified(now, Unwrap(info[t]), t)
        /\ (pc[t] = "log_write" /\ pc'[t] = "idle") =>
              \E now \in Times :
                  Concat(SubSeq(Unwrap(disk'), Len(Unwrap(disk')) - off[t] + 1,
                                Len(Unwrap(disk')))) = LineAsSpecified(now, Unwrap(info[t]), t)

\* C14: the bytes a log call has put out when it returns, to the writer
\* or at the end of the file, are the one line
\* "[TS] [LEVEL] [THREAD] [FILE:LINE] MESSAGE\n": LEVEL the upper-case
\* label of the record's level, THREAD the record's thread if given, else
\* the calling thread's name, else "unnamed", FILE, LINE and MESSAGE as
\* given; the same line on both paths.
C14_LineFormat == [][C14_Step]_vars

\* A Warning record that names no thread has been put out to the writer by
\* the unnamed thread, and a record that names its thread stands in the
\* file.
C14_Witness ==
    /\ \E t \in Threads, now \in Times, i \in AnyLogInfo :
          /\ IsNone(CurrentThreadName(t))
          /\ i.level = "Warning" /\ IsNone(i.thread)
          /\ pc[t] = "idle"
          /\ IsSome(writer[t])
          /\ Concat(Unwrap(writer[t])) = LineAsSpecified(now, i, t)
    /\ \E k \in 1..Len(journal), now \in Times, i \in AnyLogInfo :
          /\ IsSome(i.thread)
          /\ Over(k)
          /\ Concat(Landed(journal[k])) = LineAsSpecified(now, i, journal[k].thread)

\* C15: no thread holds the registry's mutex and a file mutex at the same
\* time: a thread that holds the registry's mutex is inside get_instance,
\* a thread that holds a file mutex is inside log's write, and the holder
\* of the one is never the holder of the other.
C15_LocksNotNested ==
    /\ \A t \in Threads :
          ~(instance.holder = t /\ \E f \in 1..Len(files) : files[f].holder = t)
    /\ instance.holder # 0 => pc[instance.holder] \in {"gi_check", "gi_store"}
    /\ \A f \in 1..Len(files) :
          files[f].holder # 0 => pc[files[f].holder] = "log_write"

\* Both locks are held at once, by different threads: one thread is inside
\* get_instance while another is writing its line.
C15_Witness ==
    \E t1, t2 \in Threads :
        /\ t1 # t2
        /\ instance.holder = t1
        /\ \E f \in 1..Len(files) : files[f].holder = t2

\* C16: under fair scheduling and without I/O errors every get_instance
\* call and every log call that a thread has started returns, and every
\* mutex that is held is released: no thread waits or holds a lock for
\* ever.
C16_CallsReturn ==
    /\ \A t \in Threads : (pc[t] # "idle") ~> (pc[t] = "idle")
    /\ (instance.holder # 0) ~> (instance.holder = 0)
    /\ \A t \in Threads :
          (\E f \in 1..Len(files) : files[f].holder = t)
              ~> (\A f \in 1..Len(files) : files[f].holder # t)

\* A thread waits for the file mutex while another thread, which holds it,
\* is in the middle of its line.
C16_Witness ==
    \E t1, t2 \in Threads :
        /\ t1 # t2
        /\ pc[t1] = "log_lock"
        /\ files[FileOf(t1)].holder = t2
        /\ off[t2] > 0 /\ off[t2] < Len(output[t2])

\* C17: the order of the lines in the file is the order in which their
\* calls acquired the file mutex, whatever the threads: when a call has
\* put a byte in the file, every call that acquired the mutex before it
\* has its whole line in the file, before that byte.
C17_LockOrder ==
    \A j, k \in 1..Len(journal) :
        (j < k /\ journal[k].n > 0) =>
            /\ journal[j].n = Len(journal[j].output)
            /\ Landed(journal[j]) = journal[j].output
            /\ journal[j].start + journal[j].n <= journal[k].start

\* A thread that waited for the file mutex while another thread wrote has
\* written its own line after it.
C17_Witness ==
    \E j, k \in 1..Len(journal) :
        /\ j < k
        /\ journal[j].thread # journal[k].thread
        /\ journal[k].n = Len(journal[k].output)
        /\ Landed(journal[k]) = journal[k].output

C18_Step ==
    \A t \in Threads :
        (pc[t] = "log_write" /\ pc'[t] = "idle") =>
            LET e == journal[CurEntry(t)]
            IN  /\ e.output = output[t]
                /\ e.n = Len(output[t])
                /\ Landed(e) = output[t]
                /\ e.start + e.n = Len(Unwrap(disk))
                /\ disk' = disk

\* C18: a sink-path log call that returns normally has appended its one
\* formatted line, whole and once, whatever the level of the handle (Off
\* included) and whatever the severity of the record: when the call
\* returns, the end of the file is the line it formatted, and the file has
\* grown by the lines of the calls and by nothing else.
C18_AlwaysAppends ==
    /\ [][C18_Step]_vars
    /\ [](IsSome(disk) => Len(Unwrap(disk)) = Len(Opened) + SumN(Len(journal)))
    /\ [](\A t \in Threads :
             Cardinality({k \in 1..Len(journal) : journal[k].thread = t}) <= nlogs[t])

\* A call on a handle whose level is Off, for a record of severity Error,
\* has written its whole line and is about to return.
C18_Witness ==
    \E t \in Threads :
        /\ LineWritten(t)
        /\ LevelOf(t) = "Off"
        /\ Unwrap(info[t]).level = "Error"
        /\ DiskTail(Len(output[t])) = output[t]

\* A sink-path call has failed in write_all.
SinkFailed == \E k \in 1..Len(journal) : Unwritten(k)

C19_Step ==
    SinkFailed =>
        /\ disk' = disk
        /\ journal' = journal
        /\ \A t \in Threads :
              /\ pc'[t] # "log_write"
              /\ (pc[t] = "log_lock" /\ pc'[t] # pc[t]) => pc'[t] = "panicked"
              /\ (pc[t] = "log_writer" /\ pc'[t] = "idle") =>
                    writer'[t] = Some(output[t])

\* C19: once a sink-path log call has failed in write_all, the file mutex
\* is poisoned: every later sink-path call, on any handle and any thread,
\* panics at the lock and nothing more is appended to the file, while a
\* call that was given a writer still goes through and leaves its line in
\* the writer.
C19_PoisonedSink ==
    /\ [][C19_Step]_vars
    /\ [](SinkFailed =>
             /\ \A f \in 1..Len(files) : files[f].poisoned /\ files[f].holder = 0
             /\ \A t \in Threads :
                   /\ pc[t] = "log_lock" => ENABLED LogLock(t)
                   /\ pc[t] = "log_writer" => ENABLED LogToWriter(t))

\* One thread's write has failed; the other thread's later sink-path call
\* has panicked at the lock, without ever acquiring it.
C19_Witness ==
    \E t1, t2 \in Threads :
        /\ t1 # t2
        /\ \E k \in 1..Len(journal) : journal[k].thread = t1 /\ Unwritten(k)
        /\ pc[t2] = "panicked"
        /\ nlogs[t2] > Cardinality({k \in 1..Len(journal) : journal[k].thread = t2})

\* C20 (as claimed): get_as::<String>(k) returns Some(s), without
\* panicking, when the value stored under k is the String s or the
\* one-element array [s] of Strings, and returns None when k is absent.
C20_GetAsString ==
    IsSome(key) =>
        LET k == Unwrap(key)
        IN  IF k \notin DOMAIN dict
            THEN ret = Returned(None)
            ELSE /\ dict[k].tag = "String" => ret = Returned(Some(dict[k].s))
                 /\ (dict[k].tag = "Array" /\ Len(dict[k].a) = 1) =>
                       ret = Returned(Some(dict[k].a[1].s))

\* The decimal digit a character stands for.
DigitValue(c) == CHOOSE d \in 0..9 : ToString(d) = c

\* limbs * 10 + carry, as a u64.
RECURSIVE MulAdd10(_, _)
MulAdd10(limbs, carry) ==
    IF limbs = <<>> THEN <<>>
    ELSE LET n == Len(limbs)
             cur == limbs[n] * 10 + carry
         IN  MulAdd10(SubSeq(limbs, 1, n - 1), cur \div LimbBase)
                 \o <<cur % LimbBase>>

\* The u64 a string of decimal digits denotes.
RECURSIVE ParseU64(_, _)
ParseU64(digits, acc) ==
    IF digits = <<>> THEN acc
    ELSE ParseU64(Tail(digits), MulAdd10(acc, DigitValue(Head(digits))))

\* C21: for every u64 hash the name generate_temp_file_name returns has
\* exactly 32 characters, starts with "temp-" and ends with ".log"; what
\* stands between them is 23 decimal digits that denote the hash, zeros
\* on the left, and the decimal form of the hash never has more than 23
\* digits.
C21_NameLength ==
    IsSome(name) =>
        LET n == Unwrap(name)
            digits == SubSeq(n, Len(Prefix) + 1, Len(n) - Len(Suffix))
        IN  /\ Len(n) = 32
            /\ SubSeq(n, 1, 5) = <<"t", "e", "m", "p", "-">>
            /\ SubSeq(n, Len(n) - 3, Len(n)) = <<".", "l", "o", "g">>
            /\ Len(digits) = 23
            /\ \A i \in 1..Len(digits) : \E d \in 0..9 : digits[i] = ToString(d)
            /\ ParseU64(digits, U64Zero) = hash
            /\ Len(U64ToString(hash)) <= 23
            /\ digits = [i \in 1..(23 - Len(U64ToString(hash))) |-> "0"]
                             \o U64ToString(hash)

\* The name of the greatest hash, 18446744073709551615: twenty digits
\* behind three zeros.
C21_Witness ==
    /\ hash = U64Max
    /\ name = Some(<<"t", "e", "m", "p", "-", "0", "0", "0",
                     "1", "8", "4", "4", "6", "7", "4", "4", "0", "7", "3", "7",
                     "0", "9", "5", "5", "1", "6", "1", "5", ".", "l", "o", "g">>)

====
